---- MODULE Spec2Model ----
(***************************************************************************)
(* Model of the name canonicalizer and the duplicate matcher of            *)
(* listwork-scripts:                                                       *)
(*   src/check_skipped_imports.py  find_potential_duplicates,              *)
(*                                 combine_name_parts, __main__            *)
(*   src/parse_employer_bu.py      parse_fullnames                         *)
(* Strings are sequences of one-character strings.  A similarity ratio is  *)
(* the exact fraction <<numerator, denominator>> of difflib's 2.0*M/T.     *)
(***************************************************************************)
EXTENDS Integers, Sequences, FiniteSets, TLC

VARIABLES
    names1,     \* find_potential_duplicates: the query list (may hold NaN)
    names2,     \* find_potential_duplicates: the distinct reference values
    call,       \* the latest call of the matcher and its outcome
    prev,       \* the call before it, on the same names1 / names2
    parts,      \* combine_name_parts: the row (last, first, middle)
    combined,   \* combine_name_parts: its outcome for that row
    person,     \* the split of the combined name (parse_fullnames loop body)
    column,     \* parse_fullnames: df[fullname_col], a sequence of values
    parsed      \* parse_fullnames: its outcome

vars == <<names1, names2, call, prev, parts, combined, person, column, parsed>>

matcherVars == <<names1, names2, call, prev>>
nameVars == <<parts, combined, person>>
batchVars == <<column, parsed>>

----------------------------------------------------------------------------
(* Bounds of the model.                                                    *)

MaxQueries == 2     \* length of names1
MaxRefs == 3        \* number of distinct values in names2
MaxPartsLen == 5    \* total number of characters in (last, first, middle)
MaxRows == 3        \* rows of the full-name column

----------------------------------------------------------------------------
(* Values and strings.                                                     *)

\* pandas' missing value (NaN / None); pd.notna is false of it only.
NaN == <<"<NaN>">>

notna(x) == x # NaN

Whitespace == {" "}

\* str.lower on the characters the model uses.
LowerChar(c) == IF c = "A" THEN "a" ELSE IF c = "B" THEN "b" ELSE c

lower(s) == [i \in 1..Len(s) |-> LowerChar(s[i])]

RECURSIVE lstrip(_)
lstrip(s) ==
    IF s # <<>> /\ Head(s) \in Whitespace THEN lstrip(Tail(s)) ELSE s

RECURSIVE rstrip(_)
rstrip(s) ==
    IF s # <<>> /\ s[Len(s)] \in Whitespace
    THEN rstrip(SubSeq(s, 1, Len(s) - 1))
    ELSE s

\* str.strip(): leading and trailing whitespace removed.
strip(s) == rstrip(lstrip(s))

\* str.split(sep) for a one-character separator: always at least one part.
RECURSIVE split_sep(_, _)
split_sep(s, sep) ==
    IF \A i \in 1..Len(s) : s[i] # sep
    THEN <<s>>
    ELSE LET i == CHOOSE k \in 1..Len(s) :
                      s[k] = sep /\ \A m \in 1..(k - 1) : s[m] # sep
         IN <<SubSeq(s, 1, i - 1)>> \o split_sep(SubSeq(s, i + 1, Len(s)), sep)

\* str.split() with no argument: the whitespace-free tokens, none empty.
RECURSIVE split_ws(_)
split_ws(s) ==
    LET t == lstrip(s) IN
    IF t = <<>>
    THEN <<>>
    ELSE LET n == CHOOSE k \in 1..Len(t) :
                      /\ \A m \in 1..k : t[m] \notin Whitespace
                      /\ (k = Len(t) \/ t[k + 1] \in Whitespace)
         IN <<SubSeq(t, 1, n)>> \o split_ws(SubSeq(t, n + 1, Len(t)))

\* " ".join(tokens)
RECURSIVE join_space(_)
join_space(tokens) ==
    IF tokens = <<>> THEN <<>>
    ELSE IF Len(tokens) = 1 THEN tokens[1]
    ELSE tokens[1] \o <<" ">> \o join_space(Tail(tokens))

\* A variant that looks at the first character.
endswith_first_char(s, c) == s # <<>> /\ s[1] = c

\* str.endswith(c) for a one-character suffix.
endswith(s, c) == s # <<>> /\ s[Len(s)] = c

\* f"{last}, {first} {middle}"
format_name(last, first, middle) ==
    last \o <<",", " ">> \o first \o <<" ">> \o middle

----------------------------------------------------------------------------
(* Name canonicalizer: combine_name_parts (check_skipped_imports.py).      *)

clean_name_part(x) == IF notna(x) THEN x ELSE <<>>

\* One pass of the loop body of combine_name_parts on the row (last, first,
\* middle): the combined name, or the ValueError of an empty result.
combine_row(row) ==
    LET last == clean_name_part(row[1])
        first == clean_name_part(row[2])
        middle == clean_name_part(row[3])
        full_name == strip(format_name(last, first, middle))
    IN IF full_name = <<>>
       THEN [status |-> "InvalidName", value |-> <<>>]
       ELSE [status |-> "ok", value |-> full_name]

\* combine_name_parts over the rows of a table: the list of combined names,
\* or the error of the first row that raises.
RECURSIVE combine_name_parts(_)
combine_name_parts(rows) ==
    IF rows = <<>>
    THEN [status |-> "ok", names |-> <<>>]
    ELSE LET one == combine_row(Head(rows)) IN
         IF one.status # "ok"
         THEN [status |-> one.status, names |-> <<>>]
         ELSE LET rest == combine_name_parts(Tail(rows)) IN
              IF rest.status # "ok"
              THEN rest
              ELSE [status |-> "ok", names |-> <<one.value>> \o rest.names]

----------------------------------------------------------------------------
(* Name canonicalizer: parse_fullnames (parse_employer_bu.py).             *)

NoPerson == [status |-> "none", last |-> <<>>, first |-> <<>>, middle |-> <<>>]

Failed(kind) == [status |-> kind, last |-> <<>>, first |-> <<>>, middle |-> <<>>]

\* The loop body of parse_fullnames on one value of the column.
split_fullname(fullname) ==
    IF ~notna(fullname) \/ strip(fullname) = <<>>
    THEN Failed("InvalidName")
    ELSE LET byComma == split_sep(fullname, ",") IN
         IF Len(byComma) # 2
         THEN Failed("InvalidName")
         ELSE LET last == strip(byComma[1])
                  rest == strip(byComma[2])
                  tokens == split_ws(rest)
              IN IF tokens = <<>>
                 THEN Failed("IndexError")      \* parts[-1] of an empty list
                 ELSE IF endswith(tokens[Len(tokens)], ".")
                 THEN [status |-> "ok", last |-> last,
                       first |-> join_space(SubSeq(tokens, 1, Len(tokens) - 1)),
                       middle |-> tokens[Len(tokens)]]
                 ELSE [status |-> "ok", last |-> last,
                       first |-> join_space(tokens), middle |-> <<>>]

\* (df["Last"] + ", " + df["First"] + " " + df["Middle"]).str.strip(), one row
reconstruct(p) == strip(format_name(p.last, p.first, p.middle))

RECURSIVE split_rows(_)
split_rows(col) ==
    IF col = <<>> THEN <<>> ELSE <<split_fullname(Head(col))>> \o split_rows(Tail(col))

\* A variant that reports the first offending value only.
RECURSIVE nonmatching_first_only(_, _)
nonmatching_first_only(col, people) ==
    IF col = <<>> THEN <<>>
    ELSE IF reconstruct(Head(people)) # Head(col) THEN <<Head(col)>>
    ELSE nonmatching_first_only(Tail(col), Tail(people))

\* The values of the column at the rows where nonmatches is true, in row order.
RECURSIVE nonmatching(_, _)
nonmatching(col, people) ==
    IF col = <<>> THEN <<>>
    ELSE (IF reconstruct(Head(people)) # Head(col) THEN <<Head(col)>> ELSE <<>>)
         \o nonmatching(Tail(col), Tail(people))

\* parse_fullnames on the whole column.  The loop raises at the first row it
\* cannot split; otherwise the reconstruction check runs over every row.
parse_fullnames(col) ==
    LET people == split_rows(col)
        bad == {i \in 1..Len(col) : people[i].status # "ok"}
    IN IF bad # {}
       THEN LET i == CHOOSE k \in bad : \A m \in bad : k <= m IN
            [status |-> people[i].status, people |-> <<>>,
             printed |-> IF people[i].status = "InvalidName" THEN <<col[i]>> ELSE <<>>]
       ELSE LET offending == nonmatching(col, people) IN
            IF offending # <<>>
            THEN [status |-> "UnexpectedNameFormat", people |-> <<>>,
                  printed |-> offending]
            ELSE [status |-> "ok", people |-> people, printed |-> <<>>]

----------------------------------------------------------------------------
(* Similarity matcher: difflib.SequenceMatcher(None, a, b).ratio().        *)

Min(x, y) == IF x <= y THEN x ELSE y

\* Every common block a[i..i+k-1] = b[j..j+k-1] inside a[alo..ahi], b[blo..bhi].
common_blocks(a, b, alo, ahi, blo, bhi) ==
    {x \in (alo..ahi) \X (blo..bhi) \X (1..Min(ahi - alo + 1, bhi - blo + 1)) :
        /\ x[1] + x[3] - 1 <= ahi
        /\ x[2] + x[3] - 1 <= bhi
        /\ \A d \in 0..(x[3] - 1) : a[x[1] + d] = b[x[2] + d]}

\* find_longest_match: a longest block; of those the earliest in a; of those
\* the earliest in b.
find_longest_match(a, b, alo, ahi, blo, bhi) ==
    LET B == common_blocks(a, b, alo, ahi, blo, bhi) IN
    CHOOSE x \in B : \A y \in B :
        \/ x[3] > y[3]
        \/ x[3] = y[3] /\ x[1] < y[1]
        \/ x[3] = y[3] /\ x[1] = y[1] /\ x[2] <= y[2]

\* get_matching_blocks: the total size of the blocks found by splitting around
\* the longest match and recursing to its left and to its right.
RECURSIVE matching_size(_, _, _, _, _, _)
matching_size(a, b, alo, ahi, blo, bhi) ==
    IF alo > ahi \/ blo > bhi \/ common_blocks(a, b, alo, ahi, blo, bhi) = {}
    THEN 0
    ELSE LET x == find_longest_match(a, b, alo, ahi, blo, bhi) IN
         x[3] + matching_size(a, b, alo, x[1] - 1, blo, x[2] - 1)
              + matching_size(a, b, x[1] + x[3], ahi, x[2] + x[3], bhi)

\* ratio(): 2.0 * matches / (len(a) + len(b)), and 1.0 for two empty strings.
ratio(a, b) ==
    LET length == Len(a) + Len(b) IN
    IF length = 0 THEN <<1, 1>>
    ELSE <<2 * matching_size(a, b, 1, Len(a), 1, Len(b)), length>>

\* Comparisons of fractions with positive denominators.
geq(x, y) == x[1] * y[2] >= y[1] * x[2]

gt(x, y) == x[1] * y[2] > y[1] * x[2]

eq(x, y) == x[1] * y[2] = y[1] * x[2]

----------------------------------------------------------------------------
(* Similarity matcher: find_potential_duplicates.                          *)

\* str(n).lower().strip()
clean(n) == strip(lower(n))

\* names1 = [str(n).lower().strip() for n in names1 if pd.notna(n)]
RECURSIVE clean_names1(_)
clean_names1(raw) ==
    IF raw = <<>> THEN <<>>
    ELSE (IF notna(Head(raw)) THEN <<clean(Head(raw))>> ELSE <<>>)
         \o clean_names1(Tail(raw))

\* names2 = set(str(n).lower().strip() for n in names2 if pd.notna(n))
clean_names2(raw) == {clean(n) : n \in {m \in raw : notna(m)}}

\* The orders in which iterating a set may yield its elements.
iteration_orders(S) ==
    {f \in [1..Cardinality(S) -> S] : \A i, j \in 1..Cardinality(S) : f[i] = f[j] => i = j}

\* The values the model's query lists are made of: "Ab ", "b", "abc" and a
\* missing value.
QueryValues == { <<"A", "b", " ">>, <<"b">>, <<"a", "b", "c">>, NaN }

\* The values its reference lists are made of: "ab", "AB", "BA ", "abc" and
\* a missing value.
RefValues == { <<"a", "b">>, <<"A", "B">>, <<"B", "A", " ">>, <<"a", "b", "c">>,
               NaN }

\* The cleaned names a call can compare.
CleanNames == {clean(n) : n \in (QueryValues \cup RefValues) \ {NaN}}

\* SequenceMatcher(None, name, existing).ratio() for every pair of them,
\* computed once.
RatioTable == [pair \in CleanNames \X CleanNames |-> ratio(pair[1], pair[2])]

similarity_of(name, existing) == RatioTable[<<name, existing>>]

\* A variant with the comparison the wrong way round.
qualifies_inverted(similarity, threshold) == geq(threshold, similarity)

\* similarity >= threshold
qualifies(similarity, threshold) == geq(similarity, threshold)

\* for existing in names2: ... close_matches.append((existing, similarity))
RECURSIVE close_matches(_, _, _)
close_matches(name, order, threshold) ==
    IF order = <<>> THEN <<>>
    ELSE LET existing == Head(order)
             similarity == similarity_of(name, existing)
         IN (IF qualifies(similarity, threshold)
             THEN <<<<existing, similarity>>>> ELSE <<>>)
            \o close_matches(name, Tail(order), threshold)

\* A variant that leaves close_matches in the order of iteration.
sort_close_matches_unsorted(cm) == cm

\* close_matches.sort(key=lambda x: x[1], reverse=True): a stable sort, so
\* pairs of equal similarity keep the order they were appended in.
sort_close_matches(cm) ==
    LET place(i) == 1 + Cardinality({j \in 1..Len(cm) : gt(cm[j][2], cm[i][2])})
                      + Cardinality({j \in 1..(i - 1) : eq(cm[j][2], cm[i][2])})
    IN [p \in 1..Len(cm) |-> cm[CHOOSE i \in 1..Len(cm) : place(i) = p]]

\* The row appended for a name found in names2.
exact_result(name) ==
    <<[name |-> name, match_type |-> "exact", similarity |-> <<1, 1>>,
       existing_matches |-> <<name>>]>>

\* A variant that reports a name without close matches as a row of its own.
fuzzy_result_reports_no_match(name, order, threshold) ==
    LET cm == close_matches(name, order, threshold) IN
    IF cm = <<>>
    THEN <<[name |-> name, match_type |-> "fuzzy", similarity |-> <<0, 1>>,
            existing_matches |-> <<>>]>>
    ELSE LET sorted == sort_close_matches(cm) IN
         <<[name |-> name, match_type |-> "fuzzy",
            similarity |-> sorted[1][2],
            existing_matches |-> [i \in 1..Len(sorted) |-> sorted[i][1]]]>>

\* The fuzzy half of the loop body: one row when some name of names2 is
\* close enough, none otherwise.
fuzzy_result(name, order, threshold) ==
    LET cm == close_matches(name, order, threshold) IN
    IF cm = <<>> THEN <<>>
    ELSE LET sorted == sort_close_matches(cm) IN
         <<[name |-> name, match_type |-> "fuzzy",
            similarity |-> sorted[1][2],
            existing_matches |-> [i \in 1..Len(sorted) |-> sorted[i][1]]]>>

\* A variant without the continue after the exact match.
query_result_no_continue(name, refs, order, threshold) ==
    (IF name \in refs THEN exact_result(name) ELSE <<>>)
    \o fuzzy_result(name, order, threshold)

\* The body of the loop over names1 for one name: the rows it appends to results.
query_result(name, refs, order, threshold) ==
    IF name \in refs
    THEN exact_result(name)
    ELSE fuzzy_result(name, order, threshold)

RECURSIVE collect_results(_, _, _, _)
collect_results(queries, refs, order, threshold) ==
    IF queries = <<>> THEN <<>>
    ELSE query_result(Head(queries), refs, order, threshold)
         \o collect_results(Tail(queries), refs, order, threshold)

\* A variant sorting in ascending order.
in_sort_order_ascending(x, y) == geq(y.similarity, x.similarity)

\* The order sort_values asks for between two adjacent rows (ascending=False).
in_sort_order(x, y) == geq(x.similarity, y.similarity)

\* sort_values(by="similarity", ascending=False) with the default quicksort,
\* which is not stable: every arrangement of the rows in sort order.
sort_values(results) ==
    {[i \in 1..Len(results) |-> results[f[i]]] :
        f \in {g \in [1..Len(results) -> 1..Len(results)] :
                 /\ \A i, j \in 1..Len(results) : g[i] = g[j] => i = j
                 /\ \A i \in 1..(Len(results) - 1) :
                        in_sort_order(results[g[i]], results[g[i + 1]])}}

\* The list results at the end of the loop over names1 (lines 32-64), for
\* one iteration order of the set names2.
results_of(raw1, raw2, threshold, order) ==
    collect_results(clean_names1(raw1), clean_names2(raw2), order, threshold)

\* return pd.DataFrame(results).sort_values(...): pd.DataFrame([]) has no
\* column "similarity", so sort_values raises KeyError when no row was
\* appended.
return_of(results, threshold) ==
    IF results = <<>>
    THEN {[status |-> "KeyError", threshold |-> threshold, report |-> <<>>]}
    ELSE {[status |-> "report", threshold |-> threshold, report |-> r] :
             r \in sort_values(results)}

\* find_potential_duplicates: the outcomes it can end in, over the iteration
\* orders of the set names2 and the arrangements sort_values may return.
find_potential_duplicates(raw1, raw2, threshold) ==
    UNION {return_of(results, threshold) :
             results \in {results_of(raw1, raw2, threshold, order) :
                            order \in iteration_orders(clean_names2(raw2))}}

\* A variant that checks the upper end only.
rejected_by_main_upper_only(threshold) == threshold[1] > threshold[2]

\* __main__: the threshold check in front of check_skipped_imports.
rejected_by_main(threshold) == threshold[1] < 0 \/ threshold[1] > threshold[2]

----------------------------------------------------------------------------
(* The matcher as a state machine: one run of the script, or one call by   *)
(* other code.  names1 is the list handed to line 152 (or by any other     *)
(* caller); names2 is given by its distinct values, which is all that      *)
(* set(...) keeps of the list.                                             *)

\* Thresholds as fractions: -0.25, 0.5, 0.75 (the default), 1.0, 1.25.
Thresholds == { <<-1, 4>>, <<2, 4>>, <<3, 4>>, <<4, 4>>, <<5, 4>> }

NoOutcome == [status |-> "none", threshold |-> <<0, 1>>, report |-> <<>>]

NoCall == [caller |-> "none", status |-> "none", threshold |-> <<0, 1>>,
           report |-> <<>>]

By(caller, out) ==
    [caller |-> caller, status |-> out.status, threshold |-> out.threshold,
     report |-> out.report]

Outcome(c) == [status |-> c.status, threshold |-> c.threshold, report |-> c.report]

IdleMatcher ==
    /\ names1 = <<>>
    /\ names2 = {}
    /\ call = NoCall
    /\ prev = NoOutcome

IdleNames ==
    /\ parts = <<<<>>, <<>>, <<>>>>
    /\ combined = [status |-> "none", names |-> <<>>]
    /\ person = NoPerson

IdleBatch ==
    /\ column = <<>>
    /\ parsed = [status |-> "none", people |-> <<>>, printed |-> <<>>]

Init ==
    /\ names1 \in UNION {[1..n -> QueryValues] : n \in 0..MaxQueries}
    /\ names2 \in {S \in SUBSET RefValues : Cardinality(S) <= MaxRefs}
    /\ call = NoCall
    /\ prev = NoOutcome
    /\ IdleNames
    /\ IdleBatch

\* The outcomes of a call find_potential_duplicates(names1, names2, t).
call_outcomes(t) == find_potential_duplicates(names1, names2, t)

\* The outcomes of the command line: __main__ checks the threshold first and
\* raises ValueError, otherwise it goes on to check_skipped_imports.
main_outcomes(t) ==
    IF rejected_by_main(t)
    THEN {[status |-> "InvalidThreshold", threshold |-> t, report |-> <<>>]}
    ELSE call_outcomes(t)

\* A call that reaches find_potential_duplicates with the threshold as given:
\* check_skipped_imports or find_potential_duplicates called from other code.
DirectCall ==
    /\ call.status = "none"
    /\ \E t \in Thresholds :
      \E out \in call_outcomes(t) :
        /\ call' = By("direct", out)
        /\ UNCHANGED <<names1, names2, prev, nameVars, batchVars>>

\* The command line.
Main ==
    /\ call.status = "none"
    /\ \E t \in Thresholds :
      \E out \in main_outcomes(t) :
        /\ call' = By("main", out)
        /\ UNCHANGED <<names1, names2, prev, nameVars, batchVars>>

Next == DirectCall \/ Main

Spec == Init /\ [][Next]_vars

\* Two runs on one query and the same names2, the second remembering the
\* outcome of the first, so that the two can be compared.
InitRepeat ==
    /\ names1 \in {<<v>> : v \in QueryValues}
    /\ names2 \in {S \in SUBSET RefValues : Cardinality(S) <= MaxRefs}
    /\ call = NoCall
    /\ prev = NoOutcome
    /\ IdleNames
    /\ IdleBatch

DirectCallAgain ==
    /\ prev.status = "none"
    /\ \E t \in Thresholds :
      \E out \in call_outcomes(t) :
        /\ call' = By("direct", out)
        /\ prev' = Outcome(call)
        /\ UNCHANGED <<names1, names2, nameVars, batchVars>>

MainAgain ==
    /\ prev.status = "none"
    /\ \E t \in Thresholds :
      \E out \in main_outcomes(t) :
        /\ call' = By("main", out)
        /\ prev' = Outcome(call)
        /\ UNCHANGED <<names1, names2, nameVars, batchVars>>

NextRepeat == DirectCallAgain \/ MainAgain

SpecRepeat == InitRepeat /\ [][NextRepeat]_vars

----------------------------------------------------------------------------
(* The canonicalizer on one name: combine_name_parts on a one-row table,   *)
(* then the split of parse_fullnames on the combined name.                 *)

NameAlphabet == {"a", ".", " ", ","}

\* The values a name column can hold in n characters; a missing value and an
\* empty string both have none.
PartValues(n) == IF n = 0 THEN {<<>>, NaN} ELSE [1..n -> NameAlphabet]

InitNames ==
    /\ \E n1 \in 0..MaxPartsLen :
         \E n2 \in 0..(MaxPartsLen - n1) :
           \E n3 \in 0..(MaxPartsLen - n1 - n2) :
             \E l \in PartValues(n1), f \in PartValues(n2), m \in PartValues(n3) :
               parts = <<l, f, m>>
    /\ combined = [status |-> "none", names |-> <<>>]
    /\ person = NoPerson
    /\ IdleMatcher
    /\ IdleBatch

CombineNameParts ==
    /\ combined.status = "none"
    /\ combined' = combine_name_parts(<<parts>>)
    /\ UNCHANGED <<parts, person, matcherVars, batchVars>>

SplitCombined ==
    /\ combined.status = "ok"
    /\ person.status = "none"
    /\ person' = split_fullname(combined.names[1])
    /\ UNCHANGED <<parts, combined, matcherVars, batchVars>>

NextNames == CombineNameParts \/ SplitCombined

SpecNames == InitNames /\ [][NextNames]_vars

----------------------------------------------------------------------------
(* parse_fullnames on a column of full names.                              *)

SampleFullnames ==
    { <<"a", ",", " ", "a">>,                       \* "a, a"
      <<"a", ",", " ", "a", " ", "b", ".">>,        \* "a, a b."
      <<"a", ",", "a">>,                            \* "a,a"
      <<" ", "a", ",", " ", "a">>,                  \* " a, a"
      <<"a", ",", " ", "a", ".">>,                  \* "a, a."
      <<"a", ",", " ", " ", "a", ".">>,             \* "a,  a."
      <<",", " ", "a">>,                            \* ", a"
      <<"a", ",">>,                                 \* "a,"
      <<"a">>,                                      \* "a"
      <<"a", ",", "a", ",", "a">>,                  \* "a,a,a"
      <<" ">>,                                      \* " "
      NaN }

InitBatch ==
    /\ column \in UNION {[1..n -> SampleFullnames] : n \in 0..MaxRows}
    /\ parsed = [status |-> "none", people |-> <<>>, printed |-> <<>>]
    /\ IdleMatcher
    /\ IdleNames

ParseFullnames ==
    /\ parsed.status = "none"
    /\ parsed' = parse_fullnames(column)
    /\ UNCHANGED <<column, matcherVars, nameVars>>

NextBatch == ParseFullnames

SpecBatch == InitBatch /\ [][NextBatch]_vars

----------------------------------------------------------------------------
(* Properties of the matcher.                                              *)

InRange(t) == t[1] >= 0 /\ t[1] <= t[2]

\* The call ran find_potential_duplicates (it was not stopped by __main__).
Matched(c) == c.status \in {"report", "KeyError"}

NonNullQueries == {i \in 1..Len(names1) : notna(names1[i])}

CleanRefs == {strip(lower(r)) : r \in {m \in names2 : m # NaN}}

CleanQuery(i) == strip(lower(names1[i]))

EntriesFor(report, name) == {k \in 1..Len(report) : report[k].name = name}

\* C2: a non-null query whose lower-cased, trimmed form is a lower-cased,
\* trimmed reference string is reported, once per occurrence, always as
\* match_type exact with similarity 1.0 and matches = [that string] only,
\* whatever the threshold; no fuzzy row is emitted for it.
ExactMatchPrecedence ==
    Matched(call) =>
      LET refs == CleanRefs
          query == [i \in NonNullQueries |-> CleanQuery(i)]
      IN \A i \in DOMAIN query :
           query[i] \in refs =>
             /\ call.status = "report"
             /\ Cardinality(EntriesFor(call.report, query[i]))
                  = Cardinality({j \in DOMAIN query : query[j] = query[i]})
             /\ \A k \in EntriesFor(call.report, query[i]) :
                  /\ call.report[k].match_type = "exact"
                  /\ call.report[k].similarity = <<1, 1>>
                  /\ call.report[k].existing_matches = <<query[i]>>

\* A query that differs from its cleaned form is reported exact at a
\* threshold above 1, although another reference string is close to it.
ExactMatchReported ==
    /\ call.status = "report"
    /\ ~InRange(call.threshold)
    /\ \E i \in NonNullQueries :
         /\ names1[i] # CleanQuery(i)
         /\ CleanQuery(i) \in CleanRefs
         /\ \E r \in CleanRefs : r # CleanQuery(i) /\ ratio(CleanQuery(i), r)[1] > 0
         /\ \E k \in EntriesFor(call.report, CleanQuery(i)) :
              call.report[k].match_type = "exact"

\* C3: the report is sorted by similarity, descending: of two adjacent rows
\* the first's similarity is >= the second's.
GlobalOrdering ==
    call.status = "report" =>
      \A k \in 1..(Len(call.report) - 1) :
        call.report[k].similarity[1] * call.report[k + 1].similarity[2]
          >= call.report[k + 1].similarity[1] * call.report[k].similarity[2]

\* A report whose rows had to be reordered: the second query's row, of
\* strictly higher similarity, comes first.
ReportReordered ==
    /\ call.status = "report"
    /\ Len(call.report) = 2
    /\ Len(names1) = 2
    /\ NonNullQueries = {1, 2}
    /\ call.report[1].name = CleanQuery(2)
    /\ call.report[2].name = CleanQuery(1)
    /\ gt(call.report[1].similarity, call.report[2].similarity)

\* No reference string of refs is an exact match of the name or reaches the
\* threshold.
NoMatchFor(name, refs, t) ==
    /\ name \notin refs
    /\ \A r \in refs : ~geq(similarity_of(name, r), t)

\* C4: a query without an exact match and without a reference string of
\* ratio >= threshold has no row in the report; every query has at most one
\* row, so the report is no longer than the list of non-null queries.
NoMatchOmission ==
    call.status = "report" =>
      LET refs == CleanRefs
          query == [i \in NonNullQueries |-> CleanQuery(i)]
      IN /\ \A i \in DOMAIN query :
              /\ NoMatchFor(query[i], refs, call.threshold)
                   => EntriesFor(call.report, query[i]) = {}
              /\ Cardinality(EntriesFor(call.report, query[i]))
                   <= Cardinality({j \in DOMAIN query : query[j] = query[i]})
         /\ \A k \in 1..Len(call.report) :
              \E i \in DOMAIN query : query[i] = call.report[k].name
         /\ Len(call.report) <= Cardinality(NonNullQueries)

\* A report that holds one query and omits the other, which matched nothing.
QueryOmitted ==
    /\ call.status = "report"
    /\ InRange(call.threshold)
    /\ Cardinality(NonNullQueries) = 2
    /\ Len(call.report) = 1
    /\ \E i \in NonNullQueries :
         /\ CleanRefs # {}
         /\ NoMatchFor(CleanQuery(i), CleanRefs, call.threshold)

\* C5: for any queries and references and any threshold in [0,1] the
\* matcher returns a report, an empty one when no query matches.
MatcherNeverFails ==
    (Matched(call) /\ InRange(call.threshold)) => call.status = "report"

\* C6 as claimed: whoever calls the matcher, a threshold outside [0,1] is
\* rejected before any matching work, so no call with such a threshold ever
\* produces a report.
InvalidThresholdRejected ==
    (call.status # "none" /\ ~InRange(call.threshold)) => call.status # "report"

\* C6 as the code has it: the command line rejects a threshold outside
\* [0,1], and only such a threshold, before any matching work; a call that
\* does not come through the command line is never rejected.
MainRejectsInvalidThreshold ==
    /\ call.caller = "main" =>
         /\ ~InRange(call.threshold)
              <=> call.status = "InvalidThreshold"
         /\ call.status = "InvalidThreshold" => call.report = <<>>
    /\ call.caller = "direct" => call.status # "InvalidThreshold"

\* The command line rejected a negative threshold although a query had an
\* exact match to report.
NegativeThresholdRejected ==
    /\ call.caller = "main"
    /\ call.status = "InvalidThreshold"
    /\ call.threshold[1] < 0
    /\ \E i \in NonNullQueries : CleanQuery(i) \in CleanRefs

\* The reference strings a fuzzy row of the outcome lists.
FuzzyMatches(o) ==
    UNION {{o.report[k].existing_matches[m] :
              m \in 1..Len(o.report[k].existing_matches)} :
             k \in {x \in 1..Len(o.report) : o.report[x].match_type = "fuzzy"}}

\* C9: on the same query and references, a run at a threshold t2 >= t1
\* lists a subset of the fuzzy matches of the run at t1, and a query
\* reported at t2 is reported at t1.  (prev is the run at t1.)
ThresholdMonotonicity ==
    (Matched(prev) /\ Matched(call) /\ geq(call.threshold, prev.threshold)) =>
      /\ FuzzyMatches(call) \subseteq FuzzyMatches(prev)
      /\ Cardinality(FuzzyMatches(call)) <= Cardinality(FuzzyMatches(prev))
      /\ call.status = "report" => prev.status = "report"

\* A run at a higher threshold that kept one fuzzy match of the two found
\* by the run before it.
FewerMatchesAtHigherThreshold ==
    /\ Matched(prev) /\ Matched(call)
    /\ gt(call.threshold, prev.threshold)
    /\ InRange(call.threshold) /\ InRange(prev.threshold)
    /\ Cardinality(FuzzyMatches(prev)) >= 2
    /\ Cardinality(FuzzyMatches(call)) = 1

\* Python's order of the characters the cleaned names are made of.
CharRank(c) == IF c = " " THEN 0 ELSE IF c = "a" THEN 1 ELSE IF c = "b" THEN 2 ELSE 3

\* s <= t in Python's lexicographic order of strings.
LexLeq(s, t) ==
    \/ \E n \in 1..Min(Len(s), Len(t)) :
         /\ \A m \in 1..(n - 1) : s[m] = t[m]
         /\ CharRank(s[n]) < CharRank(t[n])
    \/ Len(s) <= Len(t) /\ \A m \in 1..Len(s) : s[m] = t[m]

FuzzyRows == {k \in 1..Len(call.report) : call.report[k].match_type = "fuzzy"}

----------------------------------------------------------------------------
(* Properties of the canonicalizer.                                        *)

HasComma(s) == \E i \in 1..Len(s) : s[i] = ","

\* Whitespace-free tokens separated by single spaces: no space at either
\* end and no two in a row.
SingleSpaced(s) ==
    /\ s = <<>> \/ (s[1] # " " /\ s[Len(s)] # " ")
    /\ \A i \in 1..(Len(s) - 1) : ~(s[i] = " " /\ s[i + 1] = " ")

\* A PersonName: three strings, trimmed and free of commas, last and first
\* not empty, first and middle single-spaced.
WellFormedName(p) ==
    /\ \A i \in 1..3 : p[i] # NaN /\ ~HasComma(p[i])
    /\ p[1] # <<>> /\ p[1][1] # " " /\ p[1][Len(p[1])] # " "
    /\ p[2] # <<>> /\ SingleSpaced(p[2])
    /\ SingleSpaced(p[3])

SplitDone == person.status # "none"

SplitIs(p) ==
    /\ person.status = "ok"
    /\ person.last = p[1]
    /\ person.first = p[2]
    /\ person.middle = p[3]

\* C1 as claimed: splitting the combined name of any PersonName with
\* non-empty last and first gives back (last, first, middle).
RoundTripLaw ==
    (SplitDone /\ WellFormedName(parts)) => SplitIs(parts)

\* The period decides what the split takes for the middle name.
PeriodMarksMiddle(p) ==
    /\ p[3] = <<>> => p[2][Len(p[2])] # "."
    /\ p[3] # <<>> => (p[3][Len(p[3])] = "." /\ \A i \in 1..Len(p[3]) : p[3][i] # " ")

\* C1 as the code has it: the split gives back (last, first, middle) when
\* middle is empty and first does not end with a period, or middle is one
\* token that ends with a period.
RoundTripWhenPeriodMarksMiddle ==
    (SplitDone /\ WellFormedName(parts) /\ PeriodMarksMiddle(parts))
      => SplitIs(parts)

\* A name with a middle initial went through combine and split.
MiddleInitialRoundTrip ==
    /\ SplitDone
    /\ WellFormedName(parts)
    /\ PeriodMarksMiddle(parts)
    /\ Len(parts[3]) = 2
    /\ person.middle = parts[3]

Blank(x) == x = NaN \/ \A i \in 1..Len(x) : x[i] = " "

\* C8: a row whose last, first and middle are all missing or blank fails
\* with InvalidName and yields no combined name; a row with a non-empty
\* part yields a non-empty name.
AllBlankRejected ==
    combined.status # "none" =>
      /\ (\A i \in 1..3 : Blank(parts[i]))
           => (combined.status = "InvalidName" /\ combined.names = <<>>)
      /\ (\E i \in 1..3 : parts[i] # NaN /\ parts[i] # <<>>)
           => (combined.status = "ok" /\ combined.names[1] # <<>>)

RowsSplit == \A i \in 1..Len(column) : split_fullname(column[i]).status = "ok"

\* "{last}, {first} {middle}", trimmed, of the split of row i.
Recombined(i) ==
    LET p == split_fullname(column[i])
        text == p.last \o <<",", " ">> \o p.first \o <<" ">> \o p.middle
        from == CHOOSE a \in 1..(Len(text) + 1) :
                   /\ \A n \in 1..(a - 1) : text[n] = " "
                   /\ a <= Len(text) => text[a] # " "
        to == CHOOSE b \in 0..Len(text) :
                   /\ \A n \in (b + 1)..Len(text) : text[n] = " "
                   /\ b >= 1 => text[b] # " "
    IN SubSeq(text, from, to)

Offending == {i \in 1..Len(column) : Recombined(i) # column[i]}

\* C7: once every row is split, each is recombined and compared with the
\* original value; if any differs the operation fails with
\* UnexpectedNameFormat and lists every offending original value, in row
\* order; it succeeds, with the split of every row, only when none differs.
BatchIntegrityCheck ==
    (parsed.status # "none" /\ RowsSplit) =>
      /\ Offending = {} <=> parsed.status = "ok"
      /\ Offending # {} <=> parsed.status = "UnexpectedNameFormat"
      /\ parsed.status = "ok" =>
           /\ Len(parsed.people) = Len(column)
           /\ \A i \in 1..Len(column) : parsed.people[i] = split_fullname(column[i])
      /\ parsed.status = "UnexpectedNameFormat" =>
           /\ parsed.people = <<>>
           /\ Len(parsed.printed) = Cardinality(Offending)
           /\ \A k \in 1..Len(parsed.printed) :
                \E i \in Offending :
                  /\ Cardinality({j \in Offending : j < i}) = k - 1
                  /\ parsed.printed[k] = column[i]

\* After a row that passed the comparison, two different rows failed it
\* and both are listed.
TwoOffendingRowsListed ==
    /\ parsed.status = "UnexpectedNameFormat"
    /\ Len(column) = 3
    /\ Offending = {2, 3}
    /\ parsed.printed = <<column[2], column[3]>>
    /\ column[2] # column[3]

\* The value has exactly one comma.
OneComma(x) == x # NaN /\ Cardinality({i \in 1..Len(x) : x[i] = ","}) = 1

\* What stands before and after the comma of such a value.
BeforeComma(x) ==
    SubSeq(x, 1, (CHOOSE i \in 1..Len(x) : x[i] = ",") - 1)

AfterComma(x) ==
    SubSeq(x, (CHOOSE i \in 1..Len(x) : x[i] = ",") + 1, Len(x))

\* Nothing but one token that ends with a period, spaces around it aside.
OnlyPeriodToken(x) ==
    \E a, b \in 1..Len(x) :
      /\ a <= b /\ x[b] = "."
      /\ \A i \in 1..Len(x) : (x[i] # " ") <=> (a <= i /\ i <= b)

\* A value the split cannot give a last and a first name for.
LacksLastOrFirst(x) ==
    /\ OneComma(x)
    /\ \/ Blank(BeforeComma(x))
       \/ Blank(AfterComma(x))
       \/ OnlyPeriodToken(AfterComma(x))

\* C11: every name of an accepted column has a non-empty last and a
\* non-empty first name; a column with a value of one comma whose part
\* before the comma is blank, or whose part after it is blank or only a
\* period-terminated token, is rejected and produces no output rows.
\* (Any error counts as the rejection here, the IndexError of "a," too.)
AcceptedNamesHaveLastAndFirst ==
    /\ parsed.status = "ok" =>
         \A i \in 1..Len(parsed.people) :
           /\ parsed.people[i].last # <<>>
           /\ parsed.people[i].first # <<>>
    /\ (parsed.status # "none"
          /\ \E i \in 1..Len(column) : LacksLastOrFirst(column[i]))
         => (parsed.status # "ok" /\ parsed.people = <<>>)

====
